---------------------------- MODULE Spec2Model ----------------------------
(***************************************************************************)
(* A model of the bills-utils scripts: the two SQL normalisers             *)
(* (src/sql), the PDF conversion batch (src/conversion) and the chart      *)
(* modules (src/visualization).                                            *)
(*                                                                         *)
(* Text is modelled as a sequence of one-character tokens.  The module is  *)
(* ASCII only, so the non-ASCII characters of the source are written as    *)
(* tokens: "YEN" is the currency glyph, "TAB" a tab, "QiTa" the label of   *)
(* the synthetic other entry of the pie charts, and the Chinese column     *)
(* labels are written in pinyin.                                           *)
(*                                                                         *)
(* pandas is modelled as pandas 1.x/2.x behaves: astype(str) turns a       *)
(* missing value into the text nan.                                        *)
(***************************************************************************)
EXTENDS Integers, Sequences, FiniteSets

VARIABLES
    pc,         \* which operation produced the current state
    input,      \* the argument the operation was applied to
    output,     \* what the operation returned
    idx,        \* batch loops: index of the next file of the batch
    processed   \* batch loops: per-file results so far, in order

vars == <<pc, input, output, idx, processed>>

(***************************************************************************)
(* Bounds of the model.                                                    *)
(***************************************************************************)
MaxDataRows == 2    \* data rows per normalised file
MaxPreamble == 1    \* noise lines before the header of a normalised file

(***************************************************************************)
(* Text helpers: the pandas/str operations the normalisers use.            *)
(***************************************************************************)
\* A missing value (NaN/None) in an object column.
Nan == <<"NaN">>

Whitespace == {" ", "TAB"}

Digits == {"0", "1", "2", "3", "4", "5", "6", "7", "8", "9"}

DigitVal(c) ==
    CASE c = "0" -> 0 [] c = "1" -> 1 [] c = "2" -> 2 [] c = "3" -> 3
      [] c = "4" -> 4 [] c = "5" -> 5 [] c = "6" -> 6 [] c = "7" -> 7
      [] c = "8" -> 8 [] c = "9" -> 9

\* Series.astype(str): a missing value becomes the three letters nan.
astype_str(c) == IF c = Nan THEN <<"n", "a", "n">> ELSE c

\* Series.str.replace(ch, "", regex=False): every occurrence removed.
str_replace(s, ch) == SelectSeq(s, LAMBDA x : x # ch)

RECURSIVE lstrip(_)
lstrip(s) ==
    IF s # <<>> /\ Head(s) \in Whitespace THEN lstrip(Tail(s)) ELSE s

RECURSIVE rstrip(_)
rstrip(s) ==
    IF s # <<>> /\ s[Len(s)] \in Whitespace
    THEN rstrip(SubSeq(s, 1, Len(s) - 1))
    ELSE s

\* Series.str.strip(): surrounding whitespace removed.
str_strip(s) == rstrip(lstrip(s))

\* A numeric value in hundredths, or the float NaN.
NumNaN == [nan |-> TRUE, v |-> 0]
Num(v) == [nan |-> FALSE, v |-> v]

RECURSIVE DigitsValue(_)
DigitsValue(s) ==
    IF s = <<>> THEN 0
    ELSE 10 * DigitsValue(SubSeq(s, 1, Len(s) - 1)) + DigitVal(s[Len(s)])

AllDigits(s) == \A i \in 1..Len(s) : s[i] \in Digits

\* Position of the first "." of s, or 0.
DotPos(s) ==
    IF \E i \in 1..Len(s) : s[i] = "."
    THEN CHOOSE i \in 1..Len(s) : s[i] = "." /\ \A j \in 1..(i - 1) : s[j] # "."
    ELSE 0

\* Hundredths of the fraction digits f (at most two are kept exactly).
FracHundredths(f) ==
    IF Len(f) = 0 THEN 0
    ELSE IF Len(f) = 1 THEN 10 * DigitVal(f[1])
    ELSE 10 * DigitVal(f[1]) + DigitVal(f[2])

\* An unsigned decimal: digits, optionally a "." and more digits.
ParseUnsigned(s) ==
    LET d == DotPos(s)
        ip == IF d = 0 THEN s ELSE SubSeq(s, 1, d - 1)
        fp == IF d = 0 THEN <<>> ELSE SubSeq(s, d + 1, Len(s))
    IN  IF AllDigits(ip) /\ AllDigits(fp) /\ Len(ip) + Len(fp) > 0
        THEN Num(100 * DigitsValue(ip) + FracHundredths(fp))
        ELSE NumNaN

\* pd.to_numeric(..., errors="coerce") of one text: surrounding whitespace
\* is tolerated, a sign is allowed, anything unparsable (the text nan
\* included) becomes NaN.
to_numeric(text) ==
    LET s == str_strip(text)
    IN  IF s = <<>> THEN NumNaN
        ELSE IF Head(s) = "-"
             THEN LET u == ParseUnsigned(Tail(s))
                  IN  IF u.nan THEN NumNaN ELSE Num(0 - u.v)
             ELSE ParseUnsigned(s)


(***************************************************************************)
(* src/sql/alipay_bills_to_sql.py                                          *)
(*                                                                         *)
(* A delimited-text file: whether it can be read as gb18030, and its       *)
(* lines.  A line carries the header keywords it contains, the column      *)
(* labels it would give as a header row, and the cells of the two          *)
(* mandatory columns it gives as a data row.                               *)
(***************************************************************************)
\* The keys of the label table (mapping), in pinyin.
MappingKeys ==
    {"JiaoYiShiJian", "JiaoYiFenLei", "JiaoYiDuiFang", "DuiFangZhangHao",
     "ShangPinShuoMing", "ShouZhi", "JinE", "ShouFuKuanFangShi",
     "JiaoYiZhuangTai", "JiaoYiDingDanHao", "ShangJiaDingDanHao", "BeiZhu"}

\* A column label as the header row writes it: the label, possibly padded.
Label(k) == <<k>>
Padded(k) == <<" ", k, " ">>

\* The label an unmapped column of the export carries.
UnmappedLabel == "Extra"

\* Whether the text of a line holds the keyword k (k in line).
HoldsKeyword(labels, k) ==
    \E l \in labels : \E j \in 1..Len(l) : l[j] = k

NoiseLine ==
    [hasTime |-> FALSE, hasOrderNo |-> FALSE, labels |-> {},
     transaction_id |-> Nan, amount |-> Nan, remark |-> Nan]

HeaderLine(labels) ==
    [hasTime |-> HoldsKeyword(labels, "JiaoYiShiJian"),
     hasOrderNo |-> HoldsKeyword(labels, "JiaoYiDingDanHao"),
     labels |-> labels, transaction_id |-> Nan, amount |-> Nan,
     remark |-> Nan]

\* A data row with its transaction id, amount and remark cells.
DataLineWith(id, amt, remark) ==
    [hasTime |-> FALSE, hasOrderNo |-> FALSE, labels |-> {},
     transaction_id |-> id, amount |-> amt, remark |-> remark]

DataLine(id, amt) == DataLineWith(id, amt, Nan)

\* Line 38: df.columns = [c.strip() for c in df.columns].
StrippedColumns(line) == {str_strip(l) : l \in line.labels}

\* Line 58: df[list(mapping.keys())] raises KeyError unless every key of
\* the table is a column; columns outside the table are not selected.
SelectMapped(columns) ==
    IF \A k \in MappingKeys : Label(k) \in columns
    THEN [raised |-> FALSE, columns |-> {Label(k) : k \in MappingKeys}]
    ELSE [raised |-> TRUE, columns |-> {}]

\* Lines 17-21: the index (1-based here) of the first line that holds both
\* keywords, or 0 (the source's -1).
AlipayHeaderIndex(lines) ==
    LET hits == {i \in 1..Len(lines) : lines[i].hasTime /\ lines[i].hasOrderNo}
    IN  IF hits = {} THEN 0
        ELSE CHOOSE i \in hits : \A j \in hits : i <= j

\* Lines 63-69: the cleaning of one data row.  Only "," is removed from the
\* amount text before pd.to_numeric.
AlipayCleanRow(i, line) ==
    [src |-> i,
     transaction_id |-> str_strip(astype_str(line.transaction_id)),
     amount |-> to_numeric(str_replace(astype_str(line.amount), ",")),
     remark |-> line.remark]

\* Line 72: dropna(subset=["transaction_id", "amount"]).  After
\* astype(str) the id column holds text only, so it is never missing.
AlipayKeeps(rec) == rec.transaction_id # Nan /\ ~rec.amount.nan

RECURSIVE AlipayRows(_, _)
AlipayRows(lines, i) ==
    IF i > Len(lines) THEN <<>>
    ELSE LET rec == AlipayCleanRow(i, lines[i])
         IN  (IF AlipayKeeps(rec) THEN <<rec>> ELSE <<>>)
             \o AlipayRows(lines, i + 1)

\* process_alipay_csv: None, or the retained records in file order.  Every
\* exception (unreadable file, a mapped column missing from the header) is
\* caught and gives None.
process_alipay_csv(file) ==
    IF ~file.readable THEN [kind |-> "none", rows |-> <<>>]
    ELSE LET h == AlipayHeaderIndex(file.lines)
         IN  IF h = 0 THEN [kind |-> "none", rows |-> <<>>]
             ELSE IF SelectMapped(StrippedColumns(file.lines[h])).raised
                  THEN [kind |-> "none", rows |-> <<>>]
                  ELSE [kind |-> "df", rows |-> AlipayRows(file.lines, h + 1)]

(***************************************************************************)
(* src/sql/wx_bills_to_sql.py                                              *)
(*                                                                         *)
(* A spreadsheet: whether any of the three readers can read it, its        *)
(* column count, and its rows.  A row carries whether its text holds the   *)
(* keyword JiaoYiDanHao and the cells of the two mandatory columns.        *)
(***************************************************************************)
\* The length of the positional column list of process_file.
WxColumns == 8

\* A row with its transaction id, amount and counterparty cells.
WxRowWith(kw, id, amt, counterparty) ==
    [hasKeyword |-> kw, transaction_id |-> id, amount |-> amt,
     counterparty |-> counterparty]

WxRow(kw, id, amt) == WxRowWith(kw, id, amt, Nan)

\* Lines 21-25: the first row whose text holds the keyword, or 0 (None).
WxHeaderIndex(rows) ==
    LET hits == {i \in 1..Len(rows) : rows[i].hasKeyword}
    IN  IF hits = {} THEN 0
        ELSE CHOOSE i \in hits : \A j \in hits : i <= j

\* Lines 48-57: the glyph and the separators are removed, the text is
\* stripped and converted.  The id is left as read.
WxCleanRow(i, row) ==
    [src |-> i,
     transaction_id |-> row.transaction_id,
     amount |-> to_numeric(str_strip(str_replace(
                   str_replace(astype_str(row.amount), "YEN"), ","))),
     counterparty |-> row.counterparty]

\* Lines 58 and 61: dropna on amount, then on transaction_id.
WxKeeps(rec) == ~rec.amount.nan /\ rec.transaction_id # Nan

RECURSIVE WxRows(_, _)
WxRows(rows, i) ==
    IF i > Len(rows) THEN <<>>
    ELSE LET rec == WxCleanRow(i, rows[i])
         IN  (IF WxKeeps(rec) THEN <<rec>> ELSE <<>>) \o WxRows(rows, i + 1)

\* A normaliser whose amount conversion raises on a text it cannot parse
\* (pd.to_numeric without errors="coerce").
process_file_raising(file) ==
    IF ~file.readable THEN [kind |-> "raise", rows |-> <<>>]
    ELSE LET h == WxHeaderIndex(file.rows)
         IN  IF h = 0 THEN [kind |-> "none", rows |-> <<>>]
             ELSE IF \/ file.ncols # WxColumns
                     \/ \E i \in (h + 1)..Len(file.rows) :
                           WxCleanRow(i, file.rows[i]).amount.nan
                  THEN [kind |-> "raise", rows |-> <<>>]
                  ELSE [kind |-> "df", rows |-> WxRows(file.rows, h + 1)]

\* process_file: an uncaught exception (no reader can read the file; the
\* column count is not that of the positional list), None (no header), or
\* the retained records.
process_file(file) ==
    IF ~file.readable THEN [kind |-> "raise", rows |-> <<>>]
    ELSE LET h == WxHeaderIndex(file.rows)
         IN  IF h = 0 THEN [kind |-> "none", rows |-> <<>>]
             ELSE IF file.ncols # WxColumns
                  THEN [kind |-> "raise", rows |-> <<>>]
                  ELSE [kind |-> "df", rows |-> WxRows(file.rows, h + 1)]

(***************************************************************************)
(* The inputs of the normalisers.                                          *)
(***************************************************************************)
YenAmount == <<"YEN", "1", ",", "2", "3", "4", ".", "5", "0">>

IdCells == {Nan, <<" ">>, <<"T", "1">>, <<"T", "1", "TAB">>}

AmountCells ==
    {Nan, <<"1", "0", "0">>, <<"5", "0">>, YenAmount, <<"a", "b", "c">>,
     <<"1", ",", "2", "3", "4", ".", "5", "0">>, <<" ">>}

RECURSIVE SeqsUpTo(_, _)
SeqsUpTo(S, n) ==
    IF n = 0 THEN {<<>>}
    ELSE LET shorter == SeqsUpTo(S, n - 1)
         IN  shorter \cup {Append(s, x) : s \in shorter, x \in S}

Preamble(n) == [i \in 1..n |-> NoiseLine]

AlipayDataRows == SeqsUpTo({DataLine(id, a) : id \in IdCells, a \in AmountCells},
                           MaxDataRows)

Labels(K) == {Label(k) : k \in K}

AlipayHeaders ==
    {<<>>,
     <<HeaderLine(Labels(MappingKeys))>>,
     <<HeaderLine({Padded(k) : k \in MappingKeys})>>,
     <<HeaderLine(Labels(MappingKeys \cup {UnmappedLabel}))>>,
     <<HeaderLine(Labels(MappingKeys \ {"BeiZhu"}))>>,
     <<HeaderLine(Labels({"JiaoYiShiJian"}))>>}

\* A file: p noise lines, the header rows h and the data rows d.
AlipayFile(r, p, h, d) == [readable |-> r, lines |-> Preamble(p) \o h \o d]

WxDataRows == SeqsUpTo({WxRow(FALSE, id, a) : id \in IdCells, a \in AmountCells},
                       MaxDataRows)

WxHeaders == {<<>>, <<WxRow(TRUE, <<"I", "D">>, Nan)>>}

\* A spreadsheet of n columns: p rows of no interest, the header rows h
\* and the data rows d.
WxFile(r, n, p, h, d) ==
    [readable |-> r, ncols |-> n,
     rows |-> [i \in 1..p |-> WxRow(FALSE, Nan, Nan)] \o h \o d]

(***************************************************************************)
(* The normalisers applied to one file.                                    *)
(***************************************************************************)
Init ==
    /\ pc = "idle"
    /\ input = <<>>
    /\ output = <<>>
    /\ idx = 0
    /\ processed = <<>>

ProcessAlipayCsv ==
    /\ pc = "idle"
    /\ \E p \in 0..MaxPreamble, h \in AlipayHeaders, d \in AlipayDataRows :
          \E r \in (IF d = <<>> THEN BOOLEAN ELSE {TRUE}) :
              /\ input' = AlipayFile(r, p, h, d)
              /\ output' = process_alipay_csv(AlipayFile(r, p, h, d))
    /\ pc' = "process_alipay_csv"
    /\ UNCHANGED <<idx, processed>>

ProcessFile ==
    /\ pc = "idle"
    /\ \E p \in 0..MaxPreamble, h \in WxHeaders, d \in WxDataRows :
          \E r \in (IF d = <<>> THEN BOOLEAN ELSE {TRUE}),
             n \in (IF Len(d) <= 1 THEN {WxColumns - 1, WxColumns}
                    ELSE {WxColumns}) :
              /\ input' = WxFile(r, n, p, h, d)
              /\ output' = process_file(WxFile(r, n, p, h, d))
    /\ pc' = "process_file"
    /\ UNCHANGED <<idx, processed>>

NextNorm == ProcessAlipayCsv \/ ProcessFile

SpecNorm == Init /\ [][NextNorm]_vars

(***************************************************************************)
(* Claims about the normalisers (SpecNorm).                                *)
(***************************************************************************)
\* A transaction_id cell that is absent, empty or whitespace-only.
BlankCell(cell) == cell = Nan \/ str_strip(cell) = <<>>

\* The amount coercion the specification states: the currency glyph and
\* the grouping separators are stripped, then the text is parsed.
StatedAmount(cell) ==
    to_numeric(str_strip(str_replace(str_replace(astype_str(cell), "YEN"), ",")))

NormDone == pc \in {"process_alipay_csv", "process_file"} /\ output.kind = "df"

\* The source rows of the file that was normalised, and the index of its
\* header.
NormSource == IF pc = "process_alipay_csv" THEN input.lines ELSE input.rows

NormHeader ==
    IF pc = "process_alipay_csv" THEN AlipayHeaderIndex(input.lines)
    ELSE WxHeaderIndex(input.rows)

Retained == {output.rows[k].src : k \in 1..Len(output.rows)}

\* C1: in both SQL normalisers every data row after the header whose
\* transaction_id cell is absent, empty or whitespace-only is discarded,
\* and every row with a non-empty id and a parsable amount is retained.
C1_BlankIdDropped ==
    NormDone =>
        \A i \in (NormHeader + 1)..Len(NormSource) :
            /\ BlankCell(NormSource[i].transaction_id) => i \notin Retained
            /\ ( /\ ~BlankCell(NormSource[i].transaction_id)
                 /\ ~StatedAmount(NormSource[i].amount).nan ) => i \in Retained

\* C2: in both normalisers a data row (with an id) whose amount text is
\* the glyph, digits with grouping commas and a decimal part is retained
\* with the amount 1234.50.
C2_GlyphAmountRetained ==
    NormDone =>
        \A i \in (NormHeader + 1)..Len(NormSource) :
            ( /\ NormSource[i].amount = YenAmount
              /\ ~BlankCell(NormSource[i].transaction_id) )
            => \E k \in 1..Len(output.rows) :
                   /\ output.rows[k].src = i
                   /\ output.rows[k].amount = Num(123450)

\* The header of the file process_alipay_csv was given has, after
\* trimming, the two mandatory columns.
HasMandatoryColumns ==
    /\ pc = "process_alipay_csv"
    /\ input.readable
    /\ NormHeader # 0
    /\ {Label("JiaoYiDingDanHao"), Label("JinE")}
           \subseteq StrippedColumns(input.lines[NormHeader])

\* C11: process_alipay_csv trims the header cells before the lookup,
\* ignores columns outside the label table, and accepts (normalises,
\* does not reject) every file whose header has the mandatory columns
\* JiaoYiDingDanHao and JinE, whichever other mapped columns it lacks.
C11_NamedMappingAccepted ==
    HasMandatoryColumns => output.kind = "df"

\* The file a normaliser was given can be read, has a header and has the
\* columns the normaliser selects.
NormAccepts ==
    /\ pc \in {"process_alipay_csv", "process_file"}
    /\ input.readable
    /\ NormHeader # 0
    /\ pc = "process_alipay_csv" =>
          ~SelectMapped(StrippedColumns(input.lines[NormHeader])).raised
    /\ pc = "process_file" => input.ncols = WxColumns

\* The data rows a normaliser read.
RowsRead == Len(NormSource) - NormHeader

MaxAmount == 1100   \* the amounts bucketed are -1..MaxAmount

Edge(v) == [inf |-> FALSE, v |-> v]
InfEdge == [inf |-> TRUE, v |-> 0]

bins == <<Edge(0), Edge(50), Edge(100), Edge(300), Edge(1000), InfEdge>>

labels == <<"0-50", "50-100", "100-300", "300-1000", "1000+">>

\* No bucket: pd.cut gives NaN.
NoBucket == "NaN"

\* edge < x and x <= edge, for a finite amount x.
EdgeBelow(e, x) == ~e.inf /\ e.v < x
EdgeAtOrAbove(e, x) == e.inf \/ x <= e.v

\* pd.cut with its defaults right=True, include_lowest=False: bucket i is
\* the interval (bins[i], bins[i+1]], and a value in no interval gets NaN.
pd_cut(x, bs, ls) ==
    LET hits == {i \in 1..Len(ls) :
                    EdgeBelow(bs[i], x) /\ EdgeAtOrAbove(bs[i + 1], x)}
    IN  IF hits = {} THEN NoBucket ELSE ls[CHOOSE i \in hits : TRUE]

Amounts == (0 - 1)..MaxAmount

\* analyze_alipay_data, lines 251-254.
CutAlipay ==
    /\ pc = "idle"
    /\ \E x \in Amounts :
          /\ input' = x
          /\ output' = pd_cut(x, bins, labels)
    /\ pc' = "cut_alipay"
    /\ UNCHANGED <<idx, processed>>

\* analyze_single_file, lines 103-106.
CutWxSingle ==
    /\ pc = "idle"
    /\ \E x \in Amounts :
          /\ input' = x
          /\ output' = pd_cut(x, bins, labels)
    /\ pc' = "cut_wx_single"
    /\ UNCHANGED <<idx, processed>>

\* analyze_single_file_data, lines 258-261.
CutWxMerged ==
    /\ pc = "idle"
    /\ \E x \in Amounts :
          /\ input' = x
          /\ output' = pd_cut(x, bins, labels)
    /\ pc' = "cut_wx_merged"
    /\ UNCHANGED <<idx, processed>>

NextCut == CutAlipay \/ CutWxSingle \/ CutWxMerged

SpecCut == Init /\ [][NextCut]_vars

CutDone == pc \in {"cut_alipay", "cut_wx_single", "cut_wx_merged"}

\* C5: with the default boundaries every non-negative amount, 0 included,
\* is assigned one of the five bucket labels.
C5_BucketTotality ==
    (CutDone /\ input >= 0) => \E i \in 1..Len(labels) : output = labels[i]

\* C6: a value v gets the label of the unique i with b_i <= v < b_(i+1):
\* buckets are closed on the left and open on the right, so each boundary
\* value belongs to the bucket it opens.  Stated for v > 0; the value 0 is
\* the case of C5.
C6_LeftClosedBuckets ==
    (CutDone /\ input > 0) =>
        \E i \in 1..Len(labels) :
            /\ ~bins[i].inf /\ bins[i].v <= input
            /\ bins[i + 1].inf \/ input < bins[i + 1].v
            /\ output = labels[i]

(***************************************************************************)
(* Periods of the day: get_time_period(hour), defined once in each of      *)
(* analyze_alipay_data, analyze_single_file and analyze_single_file_data   *)
(* and applied to the hour of the transaction time.  The four labels are   *)
(* written in pinyin.                                                      *)
(***************************************************************************)
EarlyMorning == "LingChen(0-6am)"
Morning == "ShangWu(6-12am)"
Afternoon == "XiaWu(12-18pm)"
Evening == "WanShang(18-0am)"

\* A variant whose upper bounds are inclusive.
get_time_period_inclusive(hour) ==
    IF 0 <= hour /\ hour <= 6 THEN EarlyMorning
    ELSE IF 6 <= hour /\ hour <= 12 THEN Morning
    ELSE IF 12 <= hour /\ hour <= 18 THEN Afternoon
    ELSE Evening

\* alipay_csv_visualization.py, analyze_alipay_data.
get_time_period(hour) ==
    IF 0 <= hour /\ hour < 6 THEN EarlyMorning
    ELSE IF 6 <= hour /\ hour < 12 THEN Morning
    ELSE IF 12 <= hour /\ hour < 18 THEN Afternoon
    ELSE Evening

\* wx_excel_visualization.py, analyze_single_file.
get_time_period_single(hour) ==
    IF 0 <= hour /\ hour < 6 THEN EarlyMorning
    ELSE IF 6 <= hour /\ hour < 12 THEN Morning
    ELSE IF 12 <= hour /\ hour < 18 THEN Afternoon
    ELSE Evening

\* wx_excel_visualization.py, analyze_single_file_data.
get_time_period_merged(hour) ==
    IF 0 <= hour /\ hour < 6 THEN EarlyMorning
    ELSE IF 6 <= hour /\ hour < 12 THEN Morning
    ELSE IF 12 <= hour /\ hour < 18 THEN Afternoon
    ELSE Evening

\* The transaction times of a day, to the minute; dt.hour is the hour.
Timestamps == [hour : 0..23, minute : 0..59]

PeriodAlipay ==
    /\ pc = "idle"
    /\ \E t \in Timestamps :
          /\ input' = t
          /\ output' = get_time_period(t.hour)
    /\ pc' = "period_alipay"
    /\ UNCHANGED <<idx, processed>>

PeriodWxSingle ==
    /\ pc = "idle"
    /\ \E t \in Timestamps :
          /\ input' = t
          /\ output' = get_time_period_single(t.hour)
    /\ pc' = "period_wx_single"
    /\ UNCHANGED <<idx, processed>>

PeriodWxMerged ==
    /\ pc = "idle"
    /\ \E t \in Timestamps :
          /\ input' = t
          /\ output' = get_time_period_merged(t.hour)
    /\ pc' = "period_wx_merged"
    /\ UNCHANGED <<idx, processed>>

NextPeriod == PeriodAlipay \/ PeriodWxSingle \/ PeriodWxMerged

SpecPeriod == Init /\ [][NextPeriod]_vars

PeriodDone == pc \in {"period_alipay", "period_wx_single", "period_wx_merged"}

\* C18: for every hour 0..23 each copy of get_time_period returns exactly
\* one of the four labels: early morning for 0..5, morning for 6..11,
\* afternoon for 12..17, evening for 18..23; the three copies return the
\* same label for the same hour.
C18_TimePeriodTotality ==
    PeriodDone =>
        /\ output \in {EarlyMorning, Morning, Afternoon, Evening}
        /\ input.hour \in 0..5 <=> output = EarlyMorning
        /\ input.hour \in 6..11 <=> output = Morning
        /\ input.hour \in 12..17 <=> output = Afternoon
        /\ input.hour \in 18..23 <=> output = Evening
        /\ get_time_period(input.hour) = output
        /\ get_time_period_single(input.hour) = output
        /\ get_time_period_merged(input.hour) = output

\* The last minute of the early morning in the merged WeChat chart.
C18_Witness ==
    /\ pc = "period_wx_merged"
    /\ input = [hour |-> 5, minute |-> 59]
    /\ output = EarlyMorning

(***************************************************************************)
(* Long-tail rollups of the pie charts.  The input is the result of        *)
(* value_counts(): a count for every label that occurs.  The shares are    *)
(* floats in the source (count / total * 100 >= 3.0); for the counts of    *)
(* this model the float comparison and the exact one                       *)
(* (count * 100 >= 3 * total) agree.                                       *)
(***************************************************************************)
MaxCount == 50      \* occurrences of one label

\* The label the charts give the rolled-up entry.
OtherLabel == "QiTa"

\* Thresholds, in percent.
percentages_to_hide == 3
payment_percentages_to_hide == 2
category_percentages_to_hide == 2

RECURSIVE SumOver(_, _)
SumOver(f, S) ==
    IF S = {} THEN 0
    ELSE LET l == CHOOSE l \in S : TRUE
         IN  f[l] + SumOver(f, S \ {l})

\* counts[percentages >= thr], counts[percentages < thr].sum(), and the
\* assignment pie_data[OtherLabel] = other_count when other_count > 0: it
\* adds the entry, or overwrites the entry of a kept group with that label.
Rollup(counts, thr) ==
    LET groups == DOMAIN counts
        total == SumOver(counts, groups)
        significant == {l \in groups : counts[l] * 100 >= thr * total}
        other_count == SumOver(counts, groups \ significant)
    IN  IF other_count > 0
        THEN [l \in significant \cup {OtherLabel} |->
                 IF l = OtherLabel THEN other_count ELSE counts[l]]
        ELSE [l \in significant |-> counts[l]]

GroupLabels == {OtherLabel, "A", "B"}

\* value_counts(): the labels that occur, each with its count.
ValueCounts ==
    {[l \in {g \in GroupLabels : c[g] > 0} |-> c[l]] :
        c \in [GroupLabels -> 0..MaxCount]}

\* analyze_alipay_data, chart 5: counterparty.
RollupOpponents ==
    /\ pc = "idle"
    /\ \E c \in ValueCounts :
          /\ input' = c
          /\ output' = Rollup(c, percentages_to_hide)
    /\ pc' = "rollup_opponents"
    /\ UNCHANGED <<idx, processed>>

\* analyze_alipay_data, chart 7: payment method (skipped when empty).
RollupPayments ==
    /\ pc = "idle"
    /\ \E c \in ValueCounts :
          /\ DOMAIN c # {}
          /\ input' = c
          /\ output' = Rollup(c, payment_percentages_to_hide)
    /\ pc' = "rollup_payments"
    /\ UNCHANGED <<idx, processed>>

\* analyze_alipay_data, chart 8: category.
RollupCategories ==
    /\ pc = "idle"
    /\ \E c \in ValueCounts :
          /\ input' = c
          /\ output' = Rollup(c, category_percentages_to_hide)
    /\ pc' = "rollup_categories"
    /\ UNCHANGED <<idx, processed>>

\* analyze_single_file (wx), chart 5: counterparty.
RollupOpponentsWx ==
    /\ pc = "idle"
    /\ \E c \in ValueCounts :
          /\ input' = c
          /\ output' = Rollup(c, percentages_to_hide)
    /\ pc' = "rollup_opponents_wx"
    /\ UNCHANGED <<idx, processed>>

NextRollup ==
    RollupOpponents \/ RollupPayments \/ RollupCategories \/ RollupOpponentsWx

SpecRollup == Init /\ [][NextRollup]_vars

RollupDone ==
    pc \in {"rollup_opponents", "rollup_payments", "rollup_categories",
            "rollup_opponents_wx"}

\* C4: the values of the displayed result (kept groups plus the other
\* entry, if present) sum to the sum of all input group counts, whatever
\* the labels of the groups are.
C4_RollupConservation ==
    RollupDone =>
        SumOver(output, DOMAIN output) = SumOver(input, DOMAIN input)

\* The threshold of the rollup that produced the current state.
RollupThreshold ==
    IF pc \in {"rollup_opponents", "rollup_opponents_wx"}
    THEN percentages_to_hide
    ELSE IF pc = "rollup_payments" THEN payment_percentages_to_hide
    ELSE category_percentages_to_hide

InputTotal == SumOver(input, DOMAIN input)

\* The groups whose share count / total * 100 is at or above the threshold,
\* and the summed count of the others.
AtOrAbove == {l \in DOMAIN input : input[l] * 100 >= RollupThreshold * InputTotal}
ExcludedWeight == SumOver(input, DOMAIN input \ AtOrAbove)

\* C16: in every rollup a group is kept individually iff its share is at
\* or above the threshold; every kept group is displayed with its own
\* input count; every group below the threshold contributes only to the
\* single other entry.
C16_ThresholdRule ==
    RollupDone =>
        /\ \A l \in AtOrAbove : l \in DOMAIN output /\ output[l] = input[l]
        /\ \A l \in DOMAIN input \ AtOrAbove :
              /\ l # OtherLabel => l \notin DOMAIN output
              /\ OtherLabel \in DOMAIN output
              /\ output[OtherLabel] = ExcludedWeight
        /\ DOMAIN output \subseteq AtOrAbove \cup {OtherLabel}

\* C17: the result has an entry with the other label if and only if the
\* summed count of the groups below the threshold is strictly positive.
C17_OtherPresence ==
    RollupDone => (OtherLabel \in DOMAIN output <=> ExcludedWeight > 0)

(***************************************************************************)
(* src/visualization/alipay_csv_visualization.py: detect_header and        *)
(* read_alipay_csv.                                                        *)
(*                                                                         *)
(* A CSV file, as the candidate encodings see it:                          *)
(*   nrows    its number of rows (rows are numbered from 0);               *)
(*   keyword  the rows whose bytes spell one of header_keywords;           *)
(*   view     for every encoding "ok" (every byte decodes and the          *)
(*            keywords read as written), "blind" (every byte decodes, to   *)
(*            other characters: no keyword is seen) or "bad" (the          *)
(*            keywords read as written, but row badRow holds a sequence    *)
(*            that is invalid in the encoding);                            *)
(*   badRow   the row of the first invalid sequence of the "bad" views;    *)
(*   chunk    the rows one read of the text layer decodes.  open() does    *)
(*            not decode the file: the text layer decodes it chunk by      *)
(*            chunk as rows are asked for, and UnicodeDecodeError is       *)
(*            raised when the chunk with the invalid sequence is decoded;  *)
(*   columns_ok, time_ok  (read_alipay_csv, analyze_alipay_data) whether   *)
(*            the header row gives every required column and whether       *)
(*            pd.to_datetime can parse the time column.                    *)
(***************************************************************************)
MaxRows == 52       \* rows of a CSV file
MaxChunk == 2       \* rows per decoded chunk

encodings_to_try == <<"utf-8", "gbk", "gb2312", "utf-8-sig", "latin-1">>

\* "if i == 24": the row checked first.
ProbeRow == 24

\* "if i >= 49: break": the last row the scan checks.
ScanLastRow == 49

Min(a, b) == IF a < b THEN a ELSE b

\* The last row of the chunk that holds row r.
ChunkEnd(file, r) ==
    Min(file.nrows - 1, ((r \div file.chunk) + 1) * file.chunk - 1)

\* Asking the reader for row r raises UnicodeDecodeError.
RaisesAt(file, e, r) ==
    file.view[e] = "bad" /\ file.badRow <= ChunkEnd(file, r)

\* any(keyword in row_text for keyword in header_keywords) on row r as
\* decoded with e.
SeesKeyword(file, e, r) == r \in file.keyword /\ file.view[e] # "blind"

\* Without f.seek(0) the scan would go on where the probe stopped.
RowWithoutSeek(i, consumed) == consumed + i

\* f.seek(0): the scan's enumerate index i is row i of the file again,
\* whatever the probe consumed.
RowAfterSeek(i, consumed) == i

\* The scan with the bound tested before the row is checked: the last row
\* of the scan is never accepted.
RECURSIVE ScanBoundFirst(_, _, _, _)
ScanBoundFirst(file, e, i, consumed) ==
    LET r == RowAfterSeek(i, consumed)
    IN  IF r >= file.nrows THEN [res |-> "nothing", idx |-> 0 - 1]
        ELSE IF RaisesAt(file, e, r) THEN [res |-> "error", idx |-> 0 - 1]
        ELSE IF i >= ScanLastRow THEN [res |-> "nothing", idx |-> 0 - 1]
        ELSE IF SeesKeyword(file, e, r) THEN [res |-> "found", idx |-> i]
        ELSE ScanBoundFirst(file, e, i + 1, consumed)

\* Lines 51-60: the scan from the first row.  The row is read, checked,
\* and only then is the bound tested.
RECURSIVE Scan(_, _, _, _)
Scan(file, e, i, consumed) ==
    LET r == RowAfterSeek(i, consumed)
    IN  IF r >= file.nrows THEN [res |-> "nothing", idx |-> 0 - 1]
        ELSE IF RaisesAt(file, e, r) THEN [res |-> "error", idx |-> 0 - 1]
        ELSE IF SeesKeyword(file, e, r) THEN [res |-> "found", idx |-> i]
        ELSE IF i >= ScanLastRow THEN [res |-> "nothing", idx |-> 0 - 1]
        ELSE Scan(file, e, i + 1, consumed)

\* Lines 34-67, one candidate encoding: the probe of row 24 (rows 0..24 are
\* read to get there), then the scan.
TryEncoding(file, e) ==
    LET last == Min(ProbeRow, file.nrows - 1)
        consumed == last + 1
    IN  IF last >= 0 /\ RaisesAt(file, e, last)
        THEN [res |-> "error", idx |-> 0 - 1]
        ELSE IF file.nrows > ProbeRow /\ SeesKeyword(file, e, ProbeRow)
        THEN [res |-> "found", idx |-> ProbeRow]
        ELSE Scan(file, e, 0, consumed)

\* A loop that skips a candidate.
SkipCandidate(k) == k + 2

\* The candidate after candidate k.
NextCandidate(k) == k + 1

\* detect_header: the candidates in list order; the first that finds a
\* header wins.  tried lists the candidates opened.
RECURSIVE DetectFrom(_, _, _)
DetectFrom(file, k, tried) ==
    IF k > Len(encodings_to_try)
    THEN [idx |-> 0 - 1, enc |-> "None", tried |-> tried]
    ELSE LET e == encodings_to_try[k]
             r == TryEncoding(file, e)
         IN  IF r.res = "found"
             THEN [idx |-> r.idx, enc |-> e, tried |-> Append(tried, e)]
             ELSE DetectFrom(file, NextCandidate(k), Append(tried, e))

detect_header(file) == DetectFrom(file, 1, <<>>)

\* read_alipay_csv: None unless a header and an encoding are found, the
\* whole file decodes with that encoding (pd.read_csv) and the required
\* columns are there.  Every exception is caught.
read_alipay_csv(file) ==
    LET d == detect_header(file)
    IN  IF d.idx = 0 - 1 \/ d.enc = "None"
        THEN [kind |-> "none", why |-> "no_header", read_csv |-> FALSE]
        ELSE IF file.view[d.enc] = "bad"
        THEN [kind |-> "none", why |-> "decode_error", read_csv |-> TRUE]
        ELSE IF ~file.columns_ok
        THEN [kind |-> "none", why |-> "missing_columns", read_csv |-> TRUE]
        ELSE [kind |-> "df", why |-> "", read_csv |-> TRUE]

(***************************************************************************)
(* The CSV files header detection is applied to.                           *)
(***************************************************************************)
Encodings == {encodings_to_try[k] : k \in 1..Len(encodings_to_try)}

MkCsv(n, kw, view, b, c, cols, t) ==
    [nrows |-> n, keyword |-> kw, view |-> view, badRow |-> b, chunk |-> c,
     columns_ok |-> cols, time_ok |-> t]

\* Rows around which the behaviour of detect_header changes.
MarkRows == {0, 10, ProbeRow, ProbeRow + 1, ScanLastRow, ScanLastRow + 1}

\* No keyword row, or one at a marked row.
MarkedKeywords == {{}} \cup {{k} : k \in MarkRows}

\* No keyword row, one anywhere, or one anywhere and a second at the probe
\* row or around the scan bound.
KeywordSets ==
    {{}} \cup {{k} : k \in 0..(MaxRows - 1)}
         \cup {{k, m} : k \in 0..(MaxRows - 1),
                        m \in {ProbeRow, ScanLastRow, ScanLastRow + 1}}

\* Views in which every byte decodes: the first w candidates do not see
\* the keywords, the others do.
BlindPrefixViews ==
    {[e \in Encodings |->
        IF \E k \in 1..w : encodings_to_try[k] = e THEN "blind" ELSE "ok"] :
        w \in {0, 1, Len(encodings_to_try)}}

AllViews == [Encodings -> {"ok", "blind", "bad"}]

\* Rows of the first invalid sequence: a marked row, or one a chunk later.
BadRows == {r \in 0..(MaxRows - 1) : \E m \in MarkRows : r \in {m, m + MaxChunk}}

WellFormed(f) == \A r \in f.keyword : r < f.nrows

\* Files of any length whose bytes all decode.
RowFiles ==
    {f \in {MkCsv(n, kw, v, 0, 1, TRUE, TRUE) :
               n \in 0..MaxRows, kw \in KeywordSets, v \in BlindPrefixViews} :
        WellFormed(f)}

\* Files of full length with any combination of views, an invalid sequence
\* and a chunk size.
EncFiles ==
    {MkCsv(MaxRows, kw, v, b, c, TRUE, TRUE) :
        kw \in MarkedKeywords, v \in AllViews, b \in BadRows, c \in 1..MaxChunk}

InitHeader ==
    /\ pc = "csv"
    /\ input \in RowFiles \cup EncFiles
    /\ output = <<>>
    /\ idx = 0
    /\ processed = <<>>

DetectHeader ==
    /\ pc = "csv"
    /\ output' = detect_header(input)
    /\ pc' = "detect_header"
    /\ UNCHANGED <<input, idx, processed>>

\* read_alipay_csv, applied to the files of full length whose chunks are
\* the largest and whose invalid sequence is in the first row or a chunk
\* after the probe row; the header row gives the required columns or not.
ReadAlipayCsv ==
    /\ pc = "csv"
    /\ input.nrows = MaxRows /\ input.chunk = MaxChunk
    /\ input.badRow \in {0, ProbeRow + MaxChunk}
    /\ \E cols \in BOOLEAN :
          /\ input' = [input EXCEPT !.columns_ok = cols]
          /\ output' = read_alipay_csv(input')
    /\ pc' = "read_alipay_csv"
    /\ UNCHANGED <<idx, processed>>

NextHeader == DetectHeader \/ ReadAlipayCsv

SpecHeader == InitHeader /\ [][NextHeader]_vars

(***************************************************************************)
(* Claims about detect_header and read_alipay_csv (SpecHeader).            *)
(***************************************************************************)
SetMin(S) == CHOOSE x \in S : \A y \in S : x <= y

\* Some candidate decodes every byte of the file and sees its keywords.
SomeCleanView(f) == \E e \in Encodings : f.view[e] = "ok"

\* C7: when exactly one row, at index k with 0 <= k <= 49, holds a header
\* keyword, the index returned is k: a header that is found is found at k,
\* and it is found at k under every candidate that decodes the file (so it
\* is found whenever there is such a candidate).
C7_HeaderLocatedAtK ==
    (pc = "detect_header" /\ Cardinality(input.keyword) = 1
        /\ SetMin(input.keyword) <= ScanLastRow) =>
        LET k == SetMin(input.keyword)
        IN  /\ output.idx \in {k, 0 - 1}
            /\ SomeCleanView(input) => output.idx = k
            /\ \A e \in Encodings :
                  input.view[e] = "ok" =>
                      TryEncoding(input, e) = [res |-> "found", idx |-> k]

\* The header is at the last row of the scan, in a file of full length,
\* and it is found by a candidate that is not the first.
C7_Witness ==
    /\ pc = "detect_header"
    /\ input.keyword = {ScanLastRow}
    /\ output.idx = ScanLastRow
    /\ output.enc # encodings_to_try[1]

\* C8: when the probe row holds no keyword the first keyword row among
\* rows 0..49 is returned; row 49 is still accepted, a row at 50 or later
\* never is; when no row of 0..49 holds a keyword the result is (-1, None)
\* and read_alipay_csv gives up without reading the file.
C8_ScanBound ==
    /\ pc = "detect_header" =>
          LET inBound == {r \in input.keyword : r <= ScanLastRow}
          IN  /\ output.idx <= ScanLastRow
              /\ (output.idx # 0 - 1 /\ ProbeRow \notin input.keyword)
                    => output.idx = SetMin(inBound)
              /\ (SomeCleanView(input) /\ inBound # {}
                    /\ ProbeRow \notin input.keyword)
                    => output.idx = SetMin(inBound)
              /\ inBound = {} => (output.idx = 0 - 1 /\ output.enc = "None")
    /\ pc = "read_alipay_csv" =>
          ({r \in input.keyword : r <= ScanLastRow} = {}
              => (output.kind = "none" /\ ~output.read_csv))

\* The only keyword row is just past the bound, every byte decodes, and
\* no header is reported.
C8_Witness ==
    /\ pc = "detect_header"
    /\ input.keyword = {ScanLastRow + 1}
    /\ SomeCleanView(input)
    /\ output.idx = 0 - 1

\* C9: the candidates are tried in list order, the one returned is the
\* earliest that locates a header, none after it is tried, and a candidate
\* that decodes but finds no header is passed over for the next.
C9_EncodingPriority ==
    pc = "detect_header" =>
        LET n == Len(output.tried)
        IN  /\ n <= Len(encodings_to_try)
            /\ \A k \in 1..n : output.tried[k] = encodings_to_try[k]
            /\ \A k \in 1..(n - 1) :
                  TryEncoding(input, encodings_to_try[k]).res # "found"
            /\ IF output.idx # 0 - 1
               THEN /\ n > 0 /\ output.enc = output.tried[n]
                    /\ TryEncoding(input, output.enc).res = "found"
               ELSE /\ n = Len(encodings_to_try)
                    /\ output.enc = "None"
                    /\ TryEncoding(input, encodings_to_try[n]).res # "found"

\* The first candidate decodes the file without seeing a keyword, the
\* second finds the header, and the third, which would find it too, is
\* not tried.
C9_Witness ==
    /\ pc = "detect_header"
    /\ input.view[encodings_to_try[1]] = "blind"
    /\ input.view[encodings_to_try[2]] = "ok"
    /\ input.view[encodings_to_try[3]] = "ok"
    /\ output.enc = encodings_to_try[2]
    /\ output.tried = <<encodings_to_try[1], encodings_to_try[2]>>

\* C10: a candidate under which the file holds an invalid byte sequence
\* anywhere, also after the header row, is never the encoding returned.
C10_FullDecodeBeforeHeader ==
    (pc = "detect_header" /\ output.enc # "None") =>
        input.view[output.enc] # "bad"

(***************************************************************************)
(* The header search of process_alipay_csv (src/sql/alipay_bills_to_sql.py)*)
(* on files whose header comes after a long preamble.                      *)
(***************************************************************************)
\* Lines 18-21: the number of lines the loop tests for the two keywords:
\* all lines up to and including the header line (break), or every line of
\* the file when none holds both keywords.
LinesExamined(lines) ==
    LET h == AlipayHeaderIndex(lines)
    IN  IF h = 0 THEN Len(lines) ELSE h

\* Preambles: none, and those that put the header at index 49, 50 and 51.
LongPreambles == {0, ScanLastRow, ScanLastRow + 1, ScanLastRow + 2}

\* At most one data row after the header.
FewDataRows == SeqsUpTo({DataLine(id, a) : id \in IdCells, a \in AmountCells}, 1)

ProcessLongAlipayCsv ==
    /\ pc = "idle"
    /\ \E p \in LongPreambles, h \in AlipayHeaders, d \in FewDataRows :
          /\ input' = AlipayFile(TRUE, p, h, d)
          /\ output' = process_alipay_csv(AlipayFile(TRUE, p, h, d))
    /\ pc' = "process_alipay_csv"
    /\ UNCHANGED <<idx, processed>>

NextScan == ProcessLongAlipayCsv

SpecScan == Init /\ [][NextScan]_vars

\* The lines of the input at index 0..49 (1..50 here).
ScanPrefix == 1..Min(Len(input.lines), ScanLastRow + 1)

\* C21: process_alipay_csv tests at most the first 50 lines of the file
\* for the header keywords, and a file none of whose first 50 lines holds
\* both keywords is skipped as having no header.
C21_HeaderScanBound ==
    pc = "process_alipay_csv" =>
        /\ LinesExamined(input.lines) <= ScanLastRow + 1
        /\ (\A i \in ScanPrefix :
                ~(input.lines[i].hasTime /\ input.lines[i].hasOrderNo))
            => output.kind = "none"

(***************************************************************************)
(* src/conversion/wx_conversion.py                                         *)
(*                                                                         *)
(* A PDF: whether pdfplumber can open it and extract its tables, and the   *)
(* rows of its tables in page/table/row order.  A row is a sequence of     *)
(* cells; a cell is None or a text, "NL" being the line break.             *)
(***************************************************************************)
MaxLeadRows == 3    \* rows of a PDF before its data rows
MaxPdfRows == 3     \* data rows of a PDF

\* A cell pdfplumber found nothing in.
None == <<"None">>

\* ord(c) of the characters that occur in the cells of the model.
CodePoint(c) ==
    CASE c = "NL" -> 10 [] c = " " -> 32 [] c = "-" -> 45 [] c = "." -> 46
      [] c \in Digits -> 48 + DigitVal(c)
      [] c = "a" -> 97 [] c = "b" -> 98 [] c = "c" -> 99 [] c = "d" -> 100
      [] c = "e" -> 101 [] c = "g" -> 103 [] c = "h" -> 104
      [] c = "l" -> 108
      [] c = "s" -> 115 [] c = "t" -> 116 [] c = "v" -> 118 [] c = "x" -> 120
      [] c = "y" -> 121

\* a < b for two str values: the first differing character decides by its
\* code point, a proper prefix is smaller.
RECURSIVE StrLess(_, _)
StrLess(a, b) ==
    IF b = <<>> THEN FALSE
    ELSE IF a = <<>> THEN TRUE
    ELSE IF Head(a) = Head(b) THEN StrLess(Tail(a), Tail(b))
    ELSE CodePoint(Head(a)) < CodePoint(Head(b))

\* str.replace("\n", " ") and str.replace("\n", "").
NewlinesToSpaces(s) == [j \in 1..Len(s) |-> IF s[j] = "NL" THEN " " ELSE s[j]]
NewlinesDeleted(s) == SelectSeq(s, LAMBDA c : c # "NL")

\* A cleaning that treats every cell as it treats the cell at index 1.
CleanRowSpaces(row) ==
    [j \in 1..Len(row) |->
        IF row[j] # None /\ row[j] # <<>>
        THEN NewlinesToSpaces(row[j]) ELSE <<>>]

\* Lines 50-52: the cleaning of one row.  The line breaks of the cell at
\* index 1 (the second cell) become spaces; then every cell has its
\* remaining line breaks deleted, and a None or empty cell becomes "".
CleanRow(row) ==
    LET first == [row EXCEPT ![2] = IF row[2] # None /\ row[2] # <<>>
                                    THEN NewlinesToSpaces(row[2])
                                    ELSE row[2]]
    IN  [j \in 1..Len(row) |->
            IF first[j] # None /\ first[j] # <<>>
            THEN NewlinesDeleted(first[j]) ELSE <<>>]

\* Lines 42-53: the rows with more than one cell, cleaned, in order.
RECURSIVE total_rows_from(_, _)
total_rows_from(rows, i) ==
    IF i > Len(rows) THEN <<>>
    ELSE (IF Len(rows[i]) > 1
          THEN <<[src |-> i, cells |-> CleanRow(rows[i])]>> ELSE <<>>)
         \o total_rows_from(rows, i + 1)

total_rows(pdf) == total_rows_from(pdf.rows, 1)

\* The key of the sort: ele[1].
SortKey(ele) == ele.cells[2]

\* Where list.sort puts an element among the already sorted ones: behind
\* every element that is not greater (the sort is stable).
InsertUnstable(sorted, ele) ==
    LET before == SelectSeq(sorted, LAMBDA r : StrLess(SortKey(r), SortKey(ele)))
        after == SelectSeq(sorted, LAMBDA r : ~StrLess(SortKey(r), SortKey(ele)))
    IN  before \o <<ele>> \o after

InsertSorted(sorted, ele) ==
    LET before == SelectSeq(sorted, LAMBDA r : ~StrLess(SortKey(ele), SortKey(r)))
        after == SelectSeq(sorted, LAMBDA r : StrLess(SortKey(ele), SortKey(r)))
    IN  before \o <<ele>> \o after

\* Line 64: data_rows.sort(key=lambda ele: ele[1]).
RECURSIVE sort_rows(_)
sort_rows(rows) ==
    IF rows = <<>> THEN <<>>
    ELSE InsertSorted(sort_rows(SubSeq(rows, 1, Len(rows) - 1)), rows[Len(rows)])

\* datetime.datetime.fromisoformat(col) succeeds on YYYY-MM-DD, alone or
\* followed by a separator and two digits of the hour.
IsIsoFormat(col) ==
    /\ Len(col) \in {10, 13}
    /\ \A j \in {1, 2, 3, 4, 6, 7, 9, 10} : col[j] \in Digits
    /\ col[5] = "-" /\ col[8] = "-"
    /\ DigitsValue(SubSeq(col, 6, 7)) \in 1..12
    /\ DigitsValue(SubSeq(col, 9, 10)) \in 1..28
    /\ Len(col) = 13 =>
          /\ col[12] \in Digits /\ col[13] \in Digits
          /\ DigitsValue(SubSeq(col, 12, 13)) \in 0..23

\* float(col) of the texts of the model: a number, or ValueError.
IsFloat(col) == ~to_numeric(col).nan

\* A writer that stores every amount cell as a number without trying the
\* conversion.
WriteCellUnchecked(ci, col) ==
    IF ci = 6 THEN [type |-> "float", value |-> col]
    ELSE [type |-> "str", value |-> col]

\* Lines 76-99: the cell written for column ci (1-based here) of a data
\* row.  A time or an amount that cannot be converted is written as the
\* text it is.
WriteCell(ci, col) ==
    IF ci = 2 /\ IsIsoFormat(col) THEN [type |-> "datetime", value |-> col]
    ELSE IF ci = 6 /\ IsFloat(col) THEN [type |-> "float", value |-> col]
    ELSE [type |-> "str", value |-> col]

WriteRow(ele) ==
    [src |-> ele.src,
     cells |-> [ci \in 1..Len(ele.cells) |-> WriteCell(ci, ele.cells[ci])]]

NotConverted == [kind |-> "none", header |-> <<>>, data_rows |-> <<>>]

\* convert_pdf: the whole body is inside try/except Exception, so every
\* failure gives None.  Otherwise: the header written to row 1 and the
\* data rows written below it.
convert_pdf(pdf) ==
    IF ~pdf.opens THEN NotConverted
    ELSE LET all == total_rows(pdf)
         IN  IF Len(all) < 4 THEN NotConverted
             ELSE LET data_rows == sort_rows(SubSeq(all, 4, Len(all)))
                  IN  [kind |-> "converted",
                       header |-> all[3],
                       data_rows |-> [k \in 1..Len(data_rows) |->
                                         WriteRow(data_rows[k])]]

(***************************************************************************)
(* convert_pdf applied to one PDF.                                         *)
(***************************************************************************)
Jan15 == <<"2", "0", "2", "4", "-", "0", "1", "-", "1", "5">>
Feb01 == <<"2", "0", "2", "4", "-", "0", "2", "-", "0", "1">>
\* A date written without padding: as text it is greater than Feb01, as a
\* calendar day it is earlier.
Jan20Unpadded == <<"2", "0", "2", "4", "-", "1", "-", "2", "0">>
\* A time cell the PDF wraps after the date.
Jan15Wrapped == Jan15 \o <<"NL", "0", "9">>

\* A row of the bill table: a tag, the time, a text and the amount in the
\* cells at the indexes 0, 1, 2 and 5.
BillRow(tag, time, text, amount) == <<tag, time, text, <<>>, None, amount>>

OneCellRow == << <<"s">> >>
TitleRow == << <<"t">>, None >>

PdfDataRows ==
    {BillRow(<<"a">>, Jan15, <<"x", "NL", "y">>, <<"1", ".", "5">>),
     BillRow(<<"b">>, Jan15, <<"x">>, <<"a", "b", "c">>),
     BillRow(None, Feb01, <<"x">>, <<>>),
     BillRow(<<"d">>, Jan20Unpadded, None, <<"YEN", "1", ".", "5">>),
     BillRow(<<"e">>, Jan15Wrapped, <<"NL">>, None),
     << <<"g", "NL">>, Feb01 >>,
     OneCellRow}

PdfFiles ==
    {[opens |-> FALSE, rows |-> <<>>]}
    \cup {[opens |-> TRUE, rows |-> lead \o data] :
             lead \in SeqsUpTo({OneCellRow, TitleRow}, MaxLeadRows),
             data \in SeqsUpTo(PdfDataRows, MaxPdfRows)}

ConvertPdf ==
    /\ pc = "idle"
    /\ \E pdf \in PdfFiles :
          /\ input' = pdf
          /\ output' = convert_pdf(pdf)
    /\ pc' = "convert_pdf"
    /\ UNCHANGED <<idx, processed>>

\* The run is over.
ConvertPdfEnd ==
    /\ pc = "convert_pdf"
    /\ pc' = "done"
    /\ UNCHANGED <<input, output, idx, processed>>

NextPdf == ConvertPdf \/ ConvertPdfEnd

SpecPdf == Init /\ [][NextPdf]_vars

(***************************************************************************)
(* Claims about convert_pdf (SpecPdf).                                     *)
(***************************************************************************)
PdfDone == pc = "convert_pdf" /\ output.kind = "converted"

\* The indexes in input.rows of the rows with at least 2 cells, in order:
\* the flattened sequence.
Flattened == SelectSeq([i \in 1..Len(input.rows) |-> i],
                       LAMBDA i : Len(input.rows[i]) >= 2)

\* The text of the written cell ci of the written row k.
Written(k, ci) == output.data_rows[k].cells[ci].value

\* C12: the data rows written are a permutation of the flattened data
\* rows, ascending by the time text of the cell at index 1 under
\* code-point comparison, rows with equal time texts in their original
\* order.
C12_StableStringOrder ==
    PdfDone =>
        LET n == Len(output.data_rows)
            src == [k \in 1..n |-> output.data_rows[k].src]
        IN  /\ n = Len(Flattened) - 3
            /\ {src[k] : k \in 1..n} = {Flattened[j] : j \in 4..Len(Flattened)}
            /\ \A k \in 1..(n - 1) :
                  /\ ~StrLess(Written(k + 1, 2), Written(k, 2))
                  /\ Written(k, 2) = Written(k + 1, 2) => src[k] < src[k + 1]

\* Three data rows, a later day first and then the same day twice: the
\* two rows of the same day are written first, in their original order.
C12_Witness ==
    /\ PdfDone
    /\ Len(output.data_rows) = 3
    /\ Written(1, 2) = Jan15 /\ Written(2, 2) = Jan15 /\ Written(3, 2) = Feb01
    /\ output.data_rows[3].src < output.data_rows[1].src
    /\ output.data_rows[1].src < output.data_rows[2].src
    /\ output.data_rows[1].cells[1] # output.data_rows[2].cells[1]

\* C13: whenever the flattened sequence (the rows with at least 2 cells,
\* in page/table/row order) has a row at index 2, the file is converted:
\* that row is the header, and exactly the rows at index 3 and above are
\* the data rows, possibly none.
C13_FixedOffsetHeader ==
    (pc = "convert_pdf" /\ input.opens /\ Len(Flattened) >= 3) =>
        /\ output.kind = "converted"
        /\ output.header.src = Flattened[3]
        /\ {output.data_rows[k].src : k \in 1..Len(output.data_rows)}
              = {Flattened[j] : j \in 4..Len(Flattened)}

\* The cell at index ci - 1 of the row of the PDF a written row came from.
RawCell(k, ci) == input.rows[output.data_rows[k].src][ci]

IsText(cell) == cell # None /\ cell # <<>>

NoLineBreak(text) == \A j \in 1..Len(text) : text[j] # "NL"

RECURSIVE WithoutLineBreaks(_)
WithoutLineBreaks(text) ==
    IF text = <<>> THEN <<>>
    ELSE IF Head(text) = "NL" THEN WithoutLineBreaks(Tail(text))
    ELSE <<Head(text)>> \o WithoutLineBreaks(Tail(text))

NextAmount == ProcessAlipayCsv \/ ProcessFile \/ ConvertPdf

SpecAmount == Init /\ [][NextAmount]_vars

\* The written rows of a conversion that have an amount cell (index 5).
WrittenWithAmount ==
    {k \in 1..Len(output.data_rows) : Len(output.data_rows[k].cells) >= 6}

\* In the two SQL paths no data row whose amount is blank or unparsable
\* is among the rows returned.
SqlAmountMandatory ==
    NormDone =>
        \A i \in (NormHeader + 1)..Len(NormSource) :
            StatedAmount(NormSource[i].amount).nan => i \notin Retained

Quote == "'"

\* str.replace("'", "''").
RECURSIVE DoubleQuotes(_)
DoubleQuotes(s) ==
    IF s = <<>> THEN <<>>
    ELSE (IF Head(s) = Quote THEN <<Quote, Quote>> ELSE <<Head(s)>>)
         \o DoubleQuotes(Tail(s))

\* A clean that leaves the quotes of the value as they are.
clean_unescaped(val) == IF val = Nan THEN <<>> ELSE str_strip(val)

\* alipay_bills_to_sql.py, run_batch.clean: "" for a missing value, else
\* the quotes doubled and the result stripped.
clean(val) == IF val = Nan THEN <<>> ELSE str_strip(DoubleQuotes(val))

\* wx_bills_to_sql.py, run_batch.clean: the quotes doubled, "" for a
\* missing value.
clean_wx(val) == IF val # Nan THEN DoubleQuotes(val) ELSE <<>>

\* '{clean(...)}' in the f-string.
Quoted(text) == <<Quote>> \o text \o <<Quote>>

DigitChar(d) == CHOOSE c \in Digits : DigitVal(c) = d

\* str() of a natural number.
RECURSIVE NatStr(_)
NatStr(k) ==
    IF k < 10 THEN <<DigitChar(k)>>
    ELSE NatStr(k \div 10) \o <<DigitChar(k % 10)>>

\* {row['amount']} in the f-string: str() of the value of the amount
\* column, an int when pd.to_numeric gave the column the dtype int64
\* (every cell an integer text), else the shortest repr of the float.
AmountLiteral(amount, int64) ==
    LET a == IF amount.v < 0 THEN 0 - amount.v ELSE amount.v
        sign == IF amount.v < 0 THEN <<"-">> ELSE <<>>
        frac == IF a % 10 = 0 THEN <<DigitChar((a % 100) \div 10)>>
                ELSE <<DigitChar((a % 100) \div 10), DigitChar(a % 10)>>
    IN  IF int64 THEN sign \o NatStr(a \div 100)
        ELSE sign \o NatStr(a \div 100) \o <<".">> \o frac

\* Whether pd.to_numeric reads a text as an integer.
IsIntText(text) ==
    LET t == str_strip(text)
    IN  /\ t # <<>>
        /\ AllDigits(IF Head(t) = "-" THEN Tail(t) ELSE t)
        /\ t # <<"-">>

\* The dtype of the amount column of process_alipay_csv is int64.
AlipayInt64(file) ==
    LET h == AlipayHeaderIndex(file.lines)
    IN  \A i \in (h + 1)..Len(file.lines) :
            IsIntText(str_replace(astype_str(file.lines[i].amount), ","))

\* The dtype of the amount column of process_file is int64.
WxInt64(file) ==
    LET h == WxHeaderIndex(file.rows)
    IN  \A i \in (h + 1)..Len(file.rows) :
            IsIntText(str_replace(str_replace(astype_str(file.rows[i].amount),
                                              "YEN"), ","))

\* alipay_bills_to_sql.py, lines 90-108: the statements written for the
\* file at position n of the batch, one per row of df.
AlipayStatements(n, file) ==
    LET df == process_alipay_csv(file)
    IN  IF df.kind = "df" /\ df.rows # <<>>
        THEN [k \in 1..Len(df.rows) |->
                 [file |-> n, src |-> df.rows[k].src,
                  transaction_id |-> Quoted(clean(df.rows[k].transaction_id)),
                  text |-> Quoted(clean(df.rows[k].remark)),
                  amount |-> AmountLiteral(df.rows[k].amount, AlipayInt64(file))]]
        ELSE <<>>

\* wx_bills_to_sql.py, lines 80-95.
WxStatements(n, file) ==
    LET df == process_file(file)
    IN  IF df.kind = "df" /\ df.rows # <<>>
        THEN [k \in 1..Len(df.rows) |->
                 [file |-> n, src |-> df.rows[k].src,
                  transaction_id |-> Quoted(clean_wx(df.rows[k].transaction_id)),
                  text |-> Quoted(clean_wx(df.rows[k].counterparty)),
                  amount |-> AmountLiteral(df.rows[k].amount, WxInt64(file))]]
        ELSE <<>>

(***************************************************************************)
(* The batch loops: run_batch (src/sql/wx_bills_to_sql.py), the batch      *)
(* mode of analyze_alipay_bills and convert_directory.  A loop handles     *)
(* one file per step; an exception no handler catches ends the process     *)
(* (pc = "crashed").                                                       *)
(***************************************************************************)
MaxFiles == 3       \* files of one batch

\* analyze_alipay_data, line 220: pd.to_datetime raises on a time column
\* it cannot parse, and nothing catches it.
analyze_alipay_data(file) == IF file.time_ok THEN "saved" ELSE "raise"

\* analyze_single_alipay_file: nothing to do when the file cannot be read.
analyze_single_alipay_file(file) ==
    IF read_alipay_csv(file).kind = "none" THEN "skipped"
    ELSE analyze_alipay_data(file)

\* A PDF: whether pdfplumber can open it and extract its tables, and the
\* rows of its tables in page/table/row order, each a sequence of cells.
\* The PDF itself is modelled in the section on wx_conversion.py below.
AllSee(s) == [e \in Encodings |-> s]

\* Spreadsheets of a batch: unreadable, without a header, with a column
\* too few, and two that normalise.
WxBatchFiles ==
    {[readable |-> FALSE, ncols |-> WxColumns, rows |-> <<>>],
     [readable |-> TRUE, ncols |-> WxColumns,
      rows |-> <<WxRow(FALSE, Nan, Nan)>>],
     [readable |-> TRUE, ncols |-> WxColumns - 1,
      rows |-> <<WxRow(TRUE, <<"I", "D">>, Nan)>>],
     [readable |-> TRUE, ncols |-> WxColumns,
      rows |-> <<WxRow(TRUE, <<"I", "D">>, Nan),
                 WxRow(FALSE, <<"T", "1">>, <<"1", "0", "0">>)>>],
     [readable |-> TRUE, ncols |-> WxColumns,
      rows |-> <<WxRow(TRUE, <<"I", "D">>, Nan),
                 WxRow(FALSE, <<"T", "1">>, <<"a", "b", "c">>)>>],
     [readable |-> TRUE, ncols |-> WxColumns,
      rows |-> <<WxRow(TRUE, <<"I", "D">>, Nan),
                 WxRowWith(FALSE, <<"T", Quote, "1">>, <<"YEN", "5", "0">>,
                           <<Quote>>),
                 WxRowWith(FALSE, <<"T", "2">>, <<"1", ".", "5">>, Nan)>>],
     [readable |-> TRUE, ncols |-> WxColumns,
      rows |-> <<WxRow(TRUE, <<"I", "D">>, Nan),
                 WxRowWith(FALSE, <<"T", "3">>, <<"7">>,
                           <<"a", Quote, Quote, "b">>)>>]}

\* CSV exports of a batch of the SQL script: unreadable, without a header,
\* with a header only, and two with data rows.
AlipayBatchFiles ==
    {[readable |-> FALSE, lines |-> <<>>],
     [readable |-> TRUE, lines |-> <<NoiseLine>>],
     [readable |-> TRUE, lines |-> <<HeaderLine(Labels(MappingKeys))>>],
     [readable |-> TRUE,
      lines |-> <<NoiseLine, HeaderLine(Labels(MappingKeys)),
                  DataLineWith(<<"T", Quote, "1">>, <<"5", "0">>, <<Quote>>),
                  DataLineWith(<<"T", "2">>,
                               <<"1", ",", "2", "3", "4", ".", "5", "0">>,
                               <<" ", "a", Quote, Quote, "b">>)>>],
     [readable |-> TRUE,
      lines |-> <<HeaderLine(Labels(MappingKeys)),
                  DataLineWith(<<"T", "3">>, <<"a", "b", "c">>, Nan),
                  DataLineWith(<<"T", "4">>, <<"7">>, Nan)>>]}

\* CSV files of a batch: undecodable under every candidate, without a
\* header, and with a header, with or without the required columns and a
\* time column that parses.
CsvBatchFiles ==
    {MkCsv(1, {0}, AllSee("bad"), 0, 1, TRUE, TRUE),
     MkCsv(1, {}, AllSee("ok"), 0, 1, TRUE, TRUE)}
    \cup {MkCsv(1, {0}, AllSee("ok"), 0, 1, cols, t) : cols, t \in BOOLEAN}

\* PDFs of a batch: unreadable, with too few rows, and convertible.
PdfBatchFiles ==
    {[opens |-> FALSE, rows |-> <<>>],
     [opens |-> TRUE,
      rows |-> <<<< <<"a">>, <<"b">> >>, << <<"c">> >>, << <<"d">>, <<"e">> >>>>],
     [opens |-> TRUE,
      rows |-> <<<< <<"a">>, <<"b">> >>, << <<"c">>, <<"d">> >>,
                 << <<"h">>, <<"t">> >>, << <<"x">>, <<"1">> >>>>]}

Batches(S) == SeqsUpTo(S, MaxFiles)

StartRunBatch ==
    /\ pc = "idle"
    /\ input' \in Batches(WxBatchFiles)
    /\ pc' = "run_batch"
    /\ idx' = 1
    /\ UNCHANGED <<output, processed>>

\* One pass of the loop of run_batch (wx_bills_to_sql.py): an exception of
\* process_file is not caught; a statement is written for every row.
RunBatchFile ==
    /\ pc = "run_batch"
    /\ idx <= Len(input)
    /\ LET df == process_file(input[idx])
       IN  IF df.kind = "raise"
           THEN /\ pc' = "crashed"
                /\ UNCHANGED <<output, idx, processed>>
           ELSE /\ output' = output \o WxStatements(idx, input[idx])
                /\ processed' = Append(processed, df.kind)
                /\ idx' = idx + 1
                /\ pc' = pc
    /\ UNCHANGED input

StartRunBatchAlipay ==
    /\ pc = "idle"
    /\ input' \in Batches(AlipayBatchFiles)
    /\ pc' = "run_batch_alipay"
    /\ idx' = 1
    /\ UNCHANGED <<output, processed>>

\* One pass of the loop of run_batch (alipay_bills_to_sql.py):
\* process_alipay_csv catches every exception; a statement is written for
\* every row.
RunBatchAlipayFile ==
    /\ pc = "run_batch_alipay"
    /\ idx <= Len(input)
    /\ output' = output \o AlipayStatements(idx, input[idx])
    /\ processed' = Append(processed, process_alipay_csv(input[idx]).kind)
    /\ idx' = idx + 1
    /\ UNCHANGED <<pc, input>>

StartAnalyzeAlipayBills ==
    /\ pc = "idle"
    /\ input' \in Batches(CsvBatchFiles)
    /\ pc' = "analyze_alipay_bills"
    /\ idx' = 1
    /\ UNCHANGED <<output, processed>>

\* One pass of the loop of analyze_alipay_bills in batch mode.
AnalyzeAlipayFile ==
    /\ pc = "analyze_alipay_bills"
    /\ idx <= Len(input)
    /\ LET r == analyze_single_alipay_file(input[idx])
       IN  IF r = "raise"
           THEN /\ pc' = "crashed"
                /\ UNCHANGED <<idx, processed>>
           ELSE /\ processed' = Append(processed, r)
                /\ idx' = idx + 1
                /\ pc' = pc
    /\ UNCHANGED <<input, output>>

StartConvertDirectory ==
    /\ pc = "idle"
    /\ input' \in Batches(PdfBatchFiles)
    /\ pc' = "convert_directory"
    /\ idx' = 1
    /\ UNCHANGED <<output, processed>>

\* One pass of the loop of convert_directory; output is success_files.
ConvertDirectoryFile ==
    /\ pc = "convert_directory"
    /\ idx <= Len(input)
    /\ LET r == convert_pdf(input[idx])
       IN  /\ output' = IF r.kind = "none" THEN output ELSE Append(output, idx)
           /\ processed' = Append(processed, r.kind)
    /\ idx' = idx + 1
    /\ UNCHANGED <<pc, input>>

\* The loop is over.
BatchEnd ==
    /\ pc \in {"run_batch", "run_batch_alipay", "analyze_alipay_bills",
              "convert_directory"}
    /\ idx > Len(input)
    /\ pc' = "done"
    /\ UNCHANGED <<input, output, idx, processed>>

NextBatch ==
    \/ StartRunBatch \/ RunBatchFile
    \/ StartRunBatchAlipay \/ RunBatchAlipayFile
    \/ StartAnalyzeAlipayBills \/ AnalyzeAlipayFile
    \/ StartConvertDirectory \/ ConvertDirectoryFile
    \/ BatchEnd

SpecBatch == Init /\ [][NextBatch]_vars

\* C3: in every batch loop a file-level failure ends that file only: the
\* process never ends with an uncaught error, and when the loop is over
\* every file of the batch has been handled.
C3_BatchSurvivesFileFailure ==
    /\ pc # "crashed"
    /\ pc = "done" => Len(processed) = Len(input)

(***************************************************************************)
(* Claims about the statements the SQL scripts write (SpecBatch).          *)
(***************************************************************************)
SqlLoop == pc \in {"run_batch", "run_batch_alipay"}

\* The rows the normaliser retained of the file at position n.
RetainedOf(n) ==
    IF pc = "run_batch_alipay" THEN process_alipay_csv(input[n]).rows
    ELSE process_file(input[n]).rows

\* The statements written for the file at position n.
StatementsOf(n) == SelectSeq(output, LAMBDA st : st.file = n)

\* The cells of the source row a statement was written for.
SourceRow(st) ==
    IF pc = "run_batch_alipay" THEN input[st.file].lines[st.src]
    ELSE input[st.file].rows[st.src]

SourceText(st) ==
    IF pc = "run_batch_alipay" THEN SourceRow(st).remark
    ELSE SourceRow(st).counterparty

QuoteCount(text) == Cardinality({j \in 1..Len(text) : text[j] = Quote})

\* What a text literal holds between its enclosing quotes.
Body(literal) == SubSeq(literal, 2, Len(literal) - 1)

\* Every quote of the text is one of an adjacent pair.
RECURSIVE PairedQuotes(_)
PairedQuotes(text) ==
    IF text = <<>> THEN TRUE
    ELSE IF Head(text) = Quote
         THEN /\ Len(text) >= 2
              /\ text[2] = Quote
              /\ PairedQuotes(Tail(Tail(text)))
         ELSE PairedQuotes(Tail(text))

IsTextLiteral(literal) ==
    /\ Len(literal) >= 2
    /\ Head(literal) = Quote
    /\ literal[Len(literal)] = Quote
    /\ PairedQuotes(Body(literal))

IsNumericLiteral(literal) ==
    /\ \A j \in 1..Len(literal) : literal[j] \in Digits \cup {".", "-"}
    /\ \E j \in 1..Len(literal) : literal[j] \in Digits

\* C20: in both run_batch loops every text field of a retained row is
\* written with each single quote of the value doubled, so that inside the
\* literal quotes occur in adjacent pairs only; the amount is written as
\* an unquoted numeric literal; exactly one statement is written per
\* retained row, in the order of the files and of the rows.
C20_SqlLiterals ==
    SqlLoop =>
        /\ \A k \in 1..Len(output) :
              /\ IsTextLiteral(output[k].transaction_id)
              /\ IsTextLiteral(output[k].text)
              /\ QuoteCount(Body(output[k].text))
                    = 2 * QuoteCount(SourceText(output[k]))
              /\ QuoteCount(Body(output[k].transaction_id))
                    = 2 * QuoteCount(SourceRow(output[k]).transaction_id)
              /\ IsNumericLiteral(output[k].amount)
        /\ \A n \in 1..(idx - 1) :
              /\ Len(StatementsOf(n)) = Len(RetainedOf(n))
              /\ \A k \in 1..Len(RetainedOf(n)) :
                    StatementsOf(n)[k].src = RetainedOf(n)[k].src
        /\ \A k \in 1..(Len(output) - 1) :
              \/ output[k].file < output[k + 1].file
              \/ /\ output[k].file = output[k + 1].file
                 /\ output[k].src < output[k + 1].src

\* The alipay loop has handled two files with retained rows; a remark
\* that is a single quote was written as a literal of four quotes.
C20_Witness ==
    /\ pc = "run_batch_alipay"
    /\ idx > Len(input)
    /\ Len(output) >= 3
    /\ output[1].file # output[Len(output)].file
    /\ \E k \in 1..Len(output) :
          /\ SourceText(output[k]) = <<Quote>>
          /\ output[k].text = <<Quote, Quote, Quote, Quote>>

(***************************************************************************)
(* Batch mode (-b) of the two visualisation scripts: the files found       *)
(* under the input directory and the chart file each of them is given.     *)
(*                                                                         *)
(* A path is the sequence of its parts below the input directory, each     *)
(* part a text.  A tree gives, for every file in it, whether the script    *)
(* reads it and draws its chart.                                           *)
(***************************************************************************)
Csv == <<".", "c", "s", "v">>
Xlsx == <<".", "x", "l", "s", "x">>
Xls == <<".", "x", "l", "s">>

\* os.path.basename(file_path).
basename(path) == path[Len(path)]

\* str.endswith / the pattern "*<ext>" of rglob.
EndsWith(name, ext) ==
    /\ Len(name) >= Len(ext)
    /\ SubSeq(name, Len(name) - Len(ext) + 1, Len(name)) = ext

\* os.path.splitext(name)[0]: the name up to its last dot; leading dots
\* do not start an extension.
splitext_root(name) ==
    LET dots == {i \in 2..Len(name) :
                    name[i] = "." /\ \E j \in 1..(i - 1) : name[j] # "."}
    IN  IF dots = {} THEN name
        ELSE SubSeq(name, 1, (CHOOSE i \in dots : \A j \in dots : j <= i) - 1)

\* any(part.startswith('.') for part in f.parts)
IsHidden(path) == \E k \in 1..Len(path) : path[k] # <<>> /\ path[k][1] = "."

\* p < q for two pathlib paths: their parts compared as lists of str.
RECURSIVE PathLess(_, _)
PathLess(p, q) ==
    IF q = <<>> THEN FALSE
    ELSE IF p = <<>> THEN TRUE
    ELSE IF Head(p) = Head(q) THEN PathLess(Tail(p), Tail(q))
    ELSE StrLess(Head(p), Head(q))

\* list(set(files)) followed by files.sort().
RECURSIVE sorted_paths(_)
sorted_paths(S) ==
    IF S = {} THEN <<>>
    ELSE LET m == CHOOSE p \in S : \A q \in S \ {p} : PathLess(p, q)
         IN  <<m>> \o sorted_paths(S \ {m})

\* find_csv_files on a directory: rglob("*.csv") without the hidden paths.
find_csv_files(tree) ==
    sorted_paths({p \in DOMAIN tree : EndsWith(basename(p), Csv) /\ ~IsHidden(p)})

\* find_excel_files on a directory: rglob of "*.xlsx" and of "*.xls".
find_excel_files(tree) ==
    sorted_paths({p \in DOMAIN tree :
                    /\ EndsWith(basename(p), Xlsx) \/ EndsWith(basename(p), Xls)
                    /\ ~IsHidden(p)})

AnalysisSuffix == <<"_analysis.jpg">>

\* os.path.dirname(output_file) if os.path.dirname(output_file) else "."
SameDir(dir) == IF dir # "" THEN dir ELSE "."

\* analyze_alipay_bills, lines 130-147: the chart file of file_path.
file_output(file_paths, file_path, output_file) ==
    IF Len(file_paths) = 1 /\ ~output_file.isdir
    THEN [dir |-> output_file.dirname, name |-> output_file.basename]
    ELSE [dir |-> IF output_file.isdir THEN output_file.path
                  ELSE SameDir(output_file.dirname),
          name |-> splitext_root(basename(file_path)) \o AnalysisSuffix]

\* analyze_bills, lines 36-43: the chart file of file_path.
file_output_wx(file_paths, file_path, output_file) ==
    IF Len(file_paths) = 1
    THEN [dir |-> output_file.dirname, name |-> output_file.basename]
    ELSE [dir |-> SameDir(output_file.dirname),
          name |-> splitext_root(basename(file_path)) \o AnalysisSuffix]

\* plt.savefig(path): the chart of file number n is now at path, whatever
\* was there before.
savefig(fs, path, n) ==
    [q \in DOMAIN fs \cup {path} |-> IF q = path THEN n ELSE fs[q]]

\* The files that may lie under the input directory.
TreePaths ==
    {<< <<"a">> \o Csv >>, << <<"b">> \o Csv >>, << <<"d">>, <<"a">> \o Csv >>,
     << <<".", "h">>, <<"a">> \o Csv >>,
     << <<"a">> \o Xlsx >>, << <<"a">> \o Xls >>, << <<"d">>, <<"b">> \o Xlsx >>}

Trees == UNION {[S -> BOOLEAN] : S \in SUBSET TreePaths}

\* The value of -o: whether it is an existing directory, the path as
\* given, and its os.path.dirname and os.path.basename.  A chart file is
\* a directory and a name.
OutputFiles ==
    {[isdir |-> FALSE, path |-> "result.jpg", dirname |-> "",
      basename |-> <<"result.jpg">>],
     [isdir |-> FALSE, path |-> "charts/r.jpg", dirname |-> "charts",
      basename |-> <<"r.jpg">>],
     [isdir |-> TRUE, path |-> "out", dirname |-> "", basename |-> <<"out">>]}

\* What a file that was not read leaves in the record of the run.
NoChart == [dir |-> "", name |-> <<>>]

\* main of alipay_csv_visualization.py with -b: without a CSV file it
\* returns 1, otherwise analyze_alipay_bills starts its loop.
StartChartsAlipay ==
    /\ pc = "idle"
    /\ \E tree \in Trees, o \in OutputFiles :
          /\ input' = [tree |-> tree, output_file |-> o,
                       files |-> find_csv_files(tree)]
          /\ pc' = IF find_csv_files(tree) = <<>> THEN "done"
                   ELSE "charts_alipay"
    /\ idx' = 1
    /\ UNCHANGED <<output, processed>>

\* One pass of the loop of analyze_alipay_bills: a file that is not read
\* gets no chart.
SaveChartAlipay ==
    /\ pc = "charts_alipay"
    /\ idx <= Len(input.files)
    /\ LET file_path == input.files[idx]
           chart == file_output(input.files, file_path, input.output_file)
       IN  IF input.tree[file_path]
           THEN /\ output' = savefig(output, chart, idx)
                /\ processed' = Append(processed, chart)
           ELSE /\ output' = output
                /\ processed' = Append(processed, NoChart)
    /\ idx' = idx + 1
    /\ UNCHANGED <<pc, input>>

\* main of wx_excel_visualization.py with -b.
StartChartsWx ==
    /\ pc = "idle"
    /\ \E tree \in Trees, o \in OutputFiles :
          /\ input' = [tree |-> tree, output_file |-> o,
                       files |-> find_excel_files(tree)]
          /\ pc' = IF find_excel_files(tree) = <<>> THEN "done"
                   ELSE "charts_wx"
    /\ idx' = 1
    /\ UNCHANGED <<output, processed>>

\* One pass of the loop of analyze_bills.
SaveChartWx ==
    /\ pc = "charts_wx"
    /\ idx <= Len(input.files)
    /\ LET file_path == input.files[idx]
           chart == file_output_wx(input.files, file_path, input.output_file)
       IN  IF input.tree[file_path]
           THEN /\ output' = savefig(output, chart, idx)
                /\ processed' = Append(processed, chart)
           ELSE /\ output' = output
                /\ processed' = Append(processed, NoChart)
    /\ idx' = idx + 1
    /\ UNCHANGED <<pc, input>>

ChartsEnd ==
    /\ pc \in {"charts_alipay", "charts_wx"}
    /\ idx > Len(input.files)
    /\ pc' = "done"
    /\ UNCHANGED <<input, output, idx, processed>>

NextCharts ==
    \/ StartChartsAlipay \/ SaveChartAlipay
    \/ StartChartsWx \/ SaveChartWx
    \/ ChartsEnd

SpecCharts == Init /\ [][NextCharts]_vars

\* The chart file the running script gives to file number i.
ChartOf(i) ==
    IF EndsWith(basename(input.files[i]), Csv)
    THEN file_output(input.files, input.files[i], input.output_file)
    ELSE file_output_wx(input.files, input.files[i], input.output_file)

\* C22: in batch mode, when two or more files were found, two different
\* files never get the same chart file, and the chart saved for a file is
\* never replaced by the chart of a later file of the run.
C22_DistinctChartFiles ==
    (pc # "idle" /\ Len(input.files) >= 2) =>
        /\ \A i, j \in 1..Len(input.files) : i # j => ChartOf(i) # ChartOf(j)
        /\ \A i \in 1..Len(processed) :
              processed[i] # NoChart => output[processed[i]] = i

=============================================================================
